---- MODULE Spec2Model ----
(***************************************************************************)
(* State-machine model of the SFE_CC3000 driver (src/SFE_CC3000.cpp).      *)
(*                                                                         *)
(* One application thread issues the blocking public operations; the chip  *)
(* event callback (the Event Dispatcher) may run wherever the thread waits *)
(* and between any two reads of a status flag.  Operations that neither    *)
(* wait nor read a status flag are single steps.  init is split at its     *)
(* delay(100) and wlan_start, scanAccessPoints at its delay, connect,      *)
(* dnsLookup, ping and getConnectionInfo at each read of a volatile flag,  *)
(* connect also between the loop test and the loop body, dnsLookup and     *)
(* ping also between the last read and the chip command, and ping between  *)
(* the fields it copies from the report buffer, with pc holding the        *)
(* position of the call.                                                   *)
(*                                                                         *)
(* The chip is the environment: it accepts or rejects every command, holds *)
(* the scan result table, the network configuration and the pending ping,  *)
(* and raises events at any time once the callback is registered.          *)
(***************************************************************************)
EXTENDS Integers, Sequences, FiniteSets, TLC

VARIABLES
    \* build and pins
    avr_build,              \* TRUE: built for ATmega8/168/328 (line 102)
    g_int_pin,
    \* driver object
    is_initialized_,
    num_access_points_,
    access_point_count_,
    ap_scan_result_,
    connection_info_,
    \* status flags and ping report buffer (globals, lines 35-41)
    ulCC3000Connected,
    ulCC3000DHCP,
    ulSmartConfigFinished,
    ucStopSmartConfig,
    ulCC3000DHCP_configured,
    OkToDoShutDown,
    g_ping_report,
    \* the chip
    chip_nets,              \* networks in the chip's scan result table
    chip_next,              \* index of the result the next fetch delivers
    chip_ipconfig,          \* lease the chip holds (0: none)
    chip_ping,              \* attempts of the ping in progress (0: none)
    \* the application thread
    pc,                     \* "idle" or the position inside a blocking call
    op,                     \* the operation called last
    result,                 \* its return value
    ret_line,               \* source line of the return statement taken
    issued,                 \* chip commands issued by that call (count)
    acked,                  \* the chip's answer to the last of each
    out,                    \* what the call wrote to its output parameter
    \* locals of the call in progress
    security,
    timeout,
    elapsed,                \* millis() - time
    attempts,
    \* history
    scan_returned_true,     \* some scanAccessPoints() call has returned true
    seq_calls,              \* getNextAccessPoint() calls since the last scan
                            \* call, when that call returned true; else -1
    entry_flags             \* the connected and the DHCP flag as they were
                            \* when dnsLookup(), ping() or getConnectionInfo()
                            \* was called last

vars == << avr_build, g_int_pin, is_initialized_, num_access_points_,
           access_point_count_, ap_scan_result_, connection_info_,
           ulCC3000Connected, ulCC3000DHCP, ulSmartConfigFinished,
           ucStopSmartConfig, ulCC3000DHCP_configured, OkToDoShutDown,
           g_ping_report,
           chip_nets, chip_next, chip_ipconfig, chip_ping,
           pc, op, result, ret_line, issued, acked, out,
           security, timeout, elapsed, attempts,
           scan_returned_true, seq_calls, entry_flags >>

buildVars == << avr_build, g_int_pin >>
scanVars  == << num_access_points_, access_point_count_, ap_scan_result_ >>
\* the status flags no connection event concerns
otherFlagVars == << ulSmartConfigFinished, ucStopSmartConfig,
                    ulCC3000DHCP_configured, OkToDoShutDown >>
flagVars  == << ulCC3000Connected, ulCC3000DHCP, otherFlagVars >>
chipVars  == << chip_nets, chip_next, chip_ipconfig, chip_ping >>
callVars  == << pc, op, result, ret_line, issued, acked, out >>
localVars == << security, timeout, elapsed, attempts >>
histVars  == << scan_returned_true, seq_calls, entry_flags >>

-----------------------------------------------------------------------------
(* Bounds of the model *)

MaxNets == 2        \* networks a scan can find
MaxTimeout == 2     \* largest connect timeout, in ticks of 10 ms
CmdMax == 1         \* longest a wlan_connect command takes, in ticks
MaxLease == 1       \* distinct DHCP leases the chip can hold
MaxAttempts == 1    \* largest attempts argument of ping
SpinMax == 1        \* longest an iteration of the DHCP wait takes, in ticks
CmdCap == 2         \* the count of issued commands saturates here

(* Program constants *)

DelayTicks == 1     \* delay(10) of the connect loop, in ticks of 10 ms

WLAN_SEC_UNSEC == 0
WLAN_SEC_WEP == 1
WLAN_SEC_WPA == 2
WLAN_SEC_WPA2 == 3

SecurityModes == {WLAN_SEC_UNSEC, WLAN_SEC_WEP, WLAN_SEC_WPA, WLAN_SEC_WPA2}

\* security arguments tried: every predefined mode and one that is none
SecurityInputs == SecurityModes \cup {4}

\* pins given to the constructor: the two interrupt pins and another
PinInputs == {2, 3, 4}

\* the longest iteration of the connect loop: delay(10) plus the command
IterMax == DelayTicks + CmdMax

\* the longest iteration of either loop of connect()
LoopSlack == IF IterMax > SpinMax THEN IterMax ELSE SpinMax

\* elapsed time stops being counted past every value a timeout test can tell
ElapsedCap == MaxTimeout + LoopSlack + 1

Min(a, b) == IF a < b THEN a ELSE b

Cmds == { "SPI_begin", "wlan_init", "wlan_start",
          "nvmem_read_sp_version", "nvmem_get_mac_address",
          "scan_start", "get_scan_results", "scan_stop",
          "set_connection_policy", "wlan_connect", "netapp_ipconfig",
          "wlan_disconnect", "gethostbyname", "netapp_ping_send" }

NoCmds == [c \in Cmds |-> 0]
NoAcks == [c \in Cmds |-> "none"]

Ack(ok) == IF ok THEN "ok" ELSE "fail"

\* the call log after command c was issued and answered
Issue(log, c) == [log EXCEPT ![c] = Min(@ + 1, CmdCap)]
Answer(log, c, ok) == [log EXCEPT ![c] = Ack(ok)]

-----------------------------------------------------------------------------
(* Data *)

\* tNetappIpconfigRetArgs as the chip reports it for lease l (little-endian)
ConfigOf(l) ==
    [ aucIP             |-> << 10 + l, 1, 168, 192 >>,
      aucSubnetMask     |-> << 0, 255, 255, 255 >>,
      aucDefaultGateway |-> << 1, 1, 168, 192 >>,
      aucDHCPServer     |-> << 2, 1, 168, 192 >>,
      aucDNSServer      |-> << 3, 1, 168, 192 >>,
      uaMacAddr         |-> << 6, 5, 4, 3, 2, l >>,
      uaSSID            |-> l ]

\* contents of connection_info_ before anything was stored in it
UnsetConfigs ==
    { [ aucIP             |-> << 0, 0, 0, 0 >>,
        aucSubnetMask     |-> << 0, 0, 0, 0 >>,
        aucDefaultGateway |-> << 0, 0, 0, 0 >>,
        aucDHCPServer     |-> << 0, 0, 0, 0 >>,
        aucDNSServer      |-> << 0, 0, 0, 0 >>,
        uaMacAddr         |-> << 0, 0, 0, 0, 0, 0 >>,
        uaSSID            |-> 0 ],
      [ aucIP             |-> << 7, 7, 7, 7 >>,
        aucSubnetMask     |-> << 7, 7, 7, 7 >>,
        aucDefaultGateway |-> << 7, 7, 7, 7 >>,
        aucDHCPServer     |-> << 7, 7, 7, 7 >>,
        aucDNSServer      |-> << 7, 7, 7, 7 >>,
        uaMacAddr         |-> << 7, 7, 7, 7, 7, 7 >>,
        uaSSID            |-> 7 ] }

\* the scan result the chip delivers for table index i of n networks
ScanResult(i, n) ==
    [ num_networks |-> n,
      is_valid     |-> (i <= n),
      entry        |-> IF i <= n THEN i ELSE 0 ]

\* contents of ap_scan_result_ before any fetch: is_valid is not initialized
UnsetScanResults ==
    { [ num_networks |-> 0, is_valid |-> v, entry |-> 0 ] : v \in BOOLEAN }

NoPingReport == [ packets_sent |-> 0, packets_received |-> 0 ]

\* variant with a fault: the bytes are copied in the stored order
ReverseKeepsOrder(s) == s

\* info.x[i] = connection_info_.x[max - 1 - i]
Reverse(s) == [ i \in 1..Len(s) |-> s[Len(s) + 1 - i] ]

\* A 32-bit value v is held as its two 16-bit halves << v >> 16, v & 0xFFFF >>,
\* so that values with the top bit set stay within the integers TLC computes with.
HighHalf(v) == v[1]
LowHalf(v) == v[2]

\* (w >> (8 * k)) & 0xFF for a 16-bit half w
ByteOf(w, k) == (w \div (256 ^ k)) % 256

\* variant with a fault: the least significant byte comes first
IPAddrLittleEndian(v) ==
    << ByteOf(LowHalf(v), 0), ByteOf(LowHalf(v), 1),
       ByteOf(HighHalf(v), 0), ByteOf(HighHalf(v), 1) >>

\* ip_address.address[0..3] as dnsLookup fills it:
\* (v >> 24) & 0xFF, (v >> 16) & 0xFF, (v >> 8) & 0xFF, v & 0xFF
IPAddrOf(v) == << ByteOf(HighHalf(v), 1), ByteOf(HighHalf(v), 0),
                  ByteOf(LowHalf(v), 1), ByteOf(LowHalf(v), 0) >>

\* addresses the chip's name resolution returns: 0.0.0.0, 1.2.3.4,
\* 127.0.0.1, 192.168.1.10 and 255.255.255.255
DnsAddrs == { << 0, 0 >>, << 258, 772 >>, << 32512, 1 >>,
              << 49320, 266 >>, << 65535, 65535 >> }

\* return values of gethostbyname: positive on success, negative on error
DnsReturns == { -1, 0, 1 }

-----------------------------------------------------------------------------
(* Construction *)

Init ==
    /\ avr_build \in BOOLEAN
    /\ g_int_pin \in PinInputs
    /\ is_initialized_ = FALSE
    /\ num_access_points_ = 0
    /\ access_point_count_ = 0
    /\ ap_scan_result_ \in UnsetScanResults
    /\ connection_info_ \in UnsetConfigs
    /\ ulCC3000Connected = 0
    /\ ulCC3000DHCP = 0
    /\ ulSmartConfigFinished = 0
    /\ ucStopSmartConfig = 0
    /\ ulCC3000DHCP_configured = 0
    /\ OkToDoShutDown = 0
    /\ g_ping_report = NoPingReport
    /\ chip_nets = 0
    /\ chip_next = 1
    /\ chip_ipconfig = 0
    /\ chip_ping = 0
    /\ pc = "idle"
    /\ op = "constructor"
    /\ result = TRUE
    /\ ret_line = 75
    /\ issued = NoCmds
    /\ acked = NoAcks
    /\ out = "none"
    /\ security = 0
    /\ timeout = 0
    /\ elapsed = 0
    /\ attempts = 0
    /\ scan_returned_true = FALSE
    /\ seq_calls = -1
    /\ entry_flags = << 0, 0 >>

-----------------------------------------------------------------------------
(* The application thread: call and return *)

\* a call without the arguments and locals the model keeps
NoLocals ==
    /\ security' = 0
    /\ timeout' = 0
    /\ elapsed' = 0
    /\ attempts' = 0

\* a call that returns in the step it was made in
Return(o, r, line, iss, ack, o_val) ==
    /\ pc' = "idle"
    /\ op' = o
    /\ result' = r
    /\ ret_line' = line
    /\ issued' = iss
    /\ acked' = ack
    /\ out' = o_val

\* a call that blocks: the thread is now at position p inside o
Enter(o, p, iss, ack) ==
    /\ pc' = p
    /\ op' = o
    /\ result' = FALSE
    /\ ret_line' = 0
    /\ issued' = iss
    /\ acked' = ack
    /\ out' = "none"

\* the blocked call moves to position p
Goto(p, iss, ack) ==
    /\ pc' = p
    /\ issued' = iss
    /\ acked' = ack
    /\ UNCHANGED << op, result, ret_line, out >>

\* the blocked call returns; its arguments and locals stay on record with the
\* value e of millis() - time at the return
Leave(r, line, iss, ack, o_val, e) ==
    /\ pc' = "idle"
    /\ elapsed' = e
    /\ UNCHANGED << security, timeout, attempts >>
    /\ result' = r
    /\ ret_line' = line
    /\ issued' = iss
    /\ acked' = ack
    /\ out' = o_val
    /\ UNCHANGED op

-----------------------------------------------------------------------------
(* The Event Dispatcher: the callback wlan_init registers *)

\* wlan_init (line 138) has run: init() is past it or has returned from it
CallbackRegistered == is_initialized_ \/ pc = "init_start"

EvConnect ==
    /\ CallbackRegistered
    /\ ulCC3000Connected' = 1
    /\ UNCHANGED << buildVars, is_initialized_, scanVars, connection_info_,
                    ulCC3000DHCP, otherFlagVars, g_ping_report, chipVars,
                    callVars, localVars, histVars >>

EvDisconnect ==
    /\ CallbackRegistered
    /\ ulCC3000Connected' = 0
    /\ ulCC3000DHCP' = 0
    /\ chip_ipconfig' = 0
    /\ UNCHANGED << buildVars, is_initialized_, scanVars, connection_info_,
                    otherFlagVars, g_ping_report, chip_nets, chip_next,
                    chip_ping, callVars, localVars, histVars >>

EvDhcp(l) ==
    /\ CallbackRegistered
    /\ ulCC3000DHCP' = 1
    /\ chip_ipconfig' = l
    /\ UNCHANGED << buildVars, is_initialized_, scanVars, connection_info_,
                    ulCC3000Connected, otherFlagVars, g_ping_report,
                    chip_nets, chip_next, chip_ping, callVars, localVars,
                    histVars >>

EvPingReport(received) ==
    /\ CallbackRegistered
    /\ chip_ping > 0
    /\ received <= chip_ping
    /\ g_ping_report' = [ packets_sent |-> chip_ping,
                          packets_received |-> received ]
    /\ chip_ping' = 0
    /\ UNCHANGED << buildVars, is_initialized_, scanVars, connection_info_,
                    flagVars, chip_nets, chip_next, chip_ipconfig, callVars,
                    localVars, histVars >>

\* smart-config-complete: the flag of that event is set
EvSmartConfigDone ==
    /\ CallbackRegistered
    /\ ulSmartConfigFinished' = 1
    /\ UNCHANGED << buildVars, is_initialized_, scanVars, connection_info_,
                    ulCC3000Connected, ulCC3000DHCP, ucStopSmartConfig,
                    ulCC3000DHCP_configured, OkToDoShutDown, g_ping_report,
                    chipVars, callVars, localVars, histVars >>

-----------------------------------------------------------------------------
(* Guards of the driver *)

\* if (!is_initialized_) return false;
NotInitialized == ~is_initialized_

getDHCPStatus == ulCC3000DHCP = 1

getConnectionStatus == ulCC3000Connected = 1

\* variant with a fault: the security argument is only tested for its sign
SecurityOkLoose(sec) == sec >= 0

\* connect(): security is one of the predefined types
SecurityOk(sec) == sec \in SecurityModes

\* variant with a fault: the "timeout != 0" test is missing
TimedOutAlways(t, e) == e > t

\* connect(): if (timeout != 0) if ((millis() - time) > timeout) return false;
TimedOut(t, e) == t # 0 /\ e > t

\* variant with a fault: ">" for ">="
ExhaustedOffByOne(count, num) == count > num

\* getNextAccessPoint(): access_point_count_ >= num_access_points_
Exhausted(count, num) == count >= num

-----------------------------------------------------------------------------
(* init, getFirmwareVersion, getMacAddress *)

\* the pins, the bus and the callback (lines 125-145)
LibrarySetup == Issue(Issue(NoCmds, "SPI_begin"), "wlan_init")

\* the commands of an init() that ran to its end (lines 125-151)
StartSequence == Issue(LibrarySetup, "wlan_start")

\* variant with a fault: the "already initialized" test is missing
initAgain ==
    /\ pc = "idle"
    /\ NoLocals
    /\ IF ~avr_build
         THEN Return("init", FALSE, 121, NoCmds, NoAcks, "none")
         ELSE IF g_int_pin \notin {2, 3}
         THEN Return("init", FALSE, 115, NoCmds, NoAcks, "none")
         ELSE Enter("init", "init_start", LibrarySetup, NoAcks)
    /\ UNCHANGED << buildVars, is_initialized_, scanVars, connection_info_,
                    flagVars, g_ping_report, chipVars, histVars >>

\* lines 96-145: the tests, the pins, the bus, wlan_init
init ==
    /\ pc = "idle"
    /\ NoLocals
    /\ IF is_initialized_
         THEN Return("init", TRUE, 98, NoCmds, NoAcks, "none")
         ELSE IF ~avr_build
         THEN Return("init", FALSE, 121, NoCmds, NoAcks, "none")
         ELSE IF g_int_pin \notin {2, 3}
         THEN Return("init", FALSE, 115, NoCmds, NoAcks, "none")
         ELSE Enter("init", "init_start", LibrarySetup, NoAcks)
    /\ UNCHANGED << buildVars, is_initialized_, scanVars, connection_info_,
                    flagVars, g_ping_report, chipVars, histVars >>

\* lines 147-155: delay(100) and wlan_start(0) are over
initReturn ==
    /\ pc = "init_start"
    /\ is_initialized_' = TRUE
    /\ Leave(TRUE, 155, Issue(issued, "wlan_start"), acked, "none", elapsed)
    /\ UNCHANGED << buildVars, scanVars, connection_info_, flagVars,
                    g_ping_report, chipVars, histVars >>

getFirmwareVersion(ok) ==
    /\ pc = "idle"
    /\ NoLocals
    /\ IF NotInitialized
         THEN Return("getFirmwareVersion", FALSE, 168, NoCmds, NoAcks, "none")
         ELSE LET iss == Issue(NoCmds, "nvmem_read_sp_version")
                  ack == Answer(NoAcks, "nvmem_read_sp_version", ok)
              IN  IF ~ok
                    THEN Return("getFirmwareVersion", FALSE, 173, iss, ack,
                                "none")
                    ELSE Return("getFirmwareVersion", TRUE, 176, iss, ack,
                                "fw_ver")
    /\ UNCHANGED << buildVars, is_initialized_, scanVars, connection_info_,
                    flagVars, g_ping_report, chipVars, histVars >>

getMacAddress(ok) ==
    /\ pc = "idle"
    /\ NoLocals
    /\ IF NotInitialized
         THEN Return("getMacAddress", FALSE, 189, NoCmds, NoAcks, "none")
         ELSE LET iss == Issue(NoCmds, "nvmem_get_mac_address")
                  ack == Answer(NoAcks, "nvmem_get_mac_address", ok)
              IN  IF ~ok
                    THEN Return("getMacAddress", FALSE, 194, iss, ack, "none")
                    ELSE Return("getMacAddress", TRUE, 197, iss, ack,
                                "mac_addr")
    /\ UNCHANGED << buildVars, is_initialized_, scanVars, connection_info_,
                    flagVars, g_ping_report, chipVars, histVars >>

-----------------------------------------------------------------------------
(* The scan session *)

\* wlan_ioctl_get_scan_results: the chip delivers its next result
FetchedResult == ScanResult(chip_next, chip_nets)

FetchedNext == Min(chip_next + 1, chip_nets + 1)

\* variant with a fault: the answer to the scan-stop command is not tested
scanExitIgnoresStop(start_ok, fetch_ok, stop_ok) ==
    IF ~start_ok THEN 236
    ELSE IF ~fetch_ok THEN 249
    ELSE 266

\* the return statement scanAccessPoints() leaves by, given the chip's answers
\* to the scan-start command, the first fetch and the scan-stop command
scanExit(start_ok, fetch_ok, stop_ok) ==
    IF ~start_ok THEN 236
    ELSE IF ~fetch_ok THEN 249
    ELSE IF ~stop_ok THEN 263
    ELSE 266

\* lines 216-237: the scan-start command and the chip's answer to it
scanAccessPoints(start_ok) ==
    /\ pc = "idle"
    /\ NoLocals
    /\ IF NotInitialized
         THEN Return("scanAccessPoints", FALSE, 218, NoCmds, NoAcks, "none")
         ELSE LET iss1 == Issue(NoCmds, "scan_start")
                  ack1 == Answer(NoAcks, "scan_start", start_ok)
              IN  IF scanExit(start_ok, TRUE, TRUE) = 236
                    THEN Return("scanAccessPoints", FALSE, 236, iss1, ack1,
                                "none")
                    ELSE Enter("scanAccessPoints", "scan_wait", iss1, ack1)
    /\ scan_returned_true' = scan_returned_true
    /\ seq_calls' = -1
    /\ UNCHANGED entry_flags
    /\ UNCHANGED << buildVars, is_initialized_, scanVars, connection_info_,
                    flagVars, g_ping_report, chipVars >>

\* lines 239-266: delay(scan_time + 500) is over; the counters, the first
\* fetch and the scan-stop command.  n: the networks the chip found
scanFetch(fetch_ok, stop_ok, n) ==
    /\ pc = "scan_wait"
    /\ LET line == scanExit(TRUE, fetch_ok, stop_ok)
           iss2 == Issue(issued, "get_scan_results")
           ack2 == Answer(acked, "get_scan_results", fetch_ok)
           iss3 == Issue(iss2, "scan_stop")
           ack3 == Answer(ack2, "scan_stop", stop_ok)
       IN  IF line = 249
             THEN /\ chip_nets' = n
                  /\ chip_next' = 1
                  /\ num_access_points_' = 0
                  /\ access_point_count_' = 0
                  /\ UNCHANGED ap_scan_result_
                  /\ Leave(FALSE, line, iss2, ack2, "none", elapsed)
             ELSE /\ chip_nets' = n
                  /\ chip_next' = Min(2, n + 1)
                  /\ ap_scan_result_' = ScanResult(1, n)
                  /\ num_access_points_' = n
                  /\ access_point_count_' = 0
                  /\ Leave(line = 266, line, iss3, ack3, "none", elapsed)
    /\ scan_returned_true' = (scan_returned_true \/ result')
    /\ seq_calls' = IF result' THEN 0 ELSE -1
    /\ UNCHANGED entry_flags
    /\ UNCHANGED << buildVars, is_initialized_, connection_info_, flagVars,
                    g_ping_report, chip_ipconfig, chip_ping >>

\* ap_info as filled from the buffered result
APInfoOf(r) == [ entry |-> r.entry ]

getNextAccessPoint(fetch_ok) ==
    /\ pc = "idle"
    /\ NoLocals
    /\ IF NotInitialized
         THEN /\ Return("getNextAccessPoint", FALSE, 284, NoCmds, NoAcks,
                        "none")
              /\ UNCHANGED << scanVars, chip_next >>
         ELSE IF ~ap_scan_result_.is_valid
         THEN /\ Return("getNextAccessPoint", FALSE, 289, NoCmds, NoAcks,
                        "none")
              /\ UNCHANGED << scanVars, chip_next >>
         ELSE IF Exhausted(access_point_count_, num_access_points_)
         THEN /\ Return("getNextAccessPoint", FALSE, 294, NoCmds, NoAcks,
                        "none")
              /\ UNCHANGED << scanVars, chip_next >>
         ELSE LET iss == Issue(NoCmds, "get_scan_results")
                  ack == Answer(NoAcks, "get_scan_results", fetch_ok)
                  rec == APInfoOf(ap_scan_result_)
              IN  IF ~fetch_ok
                    THEN /\ Return("getNextAccessPoint", FALSE, 309, iss, ack,
                                   rec)
                         /\ UNCHANGED << scanVars, chip_next >>
                    ELSE /\ ap_scan_result_' = FetchedResult
                         /\ chip_next' = FetchedNext
                         /\ access_point_count_' = access_point_count_ + 1
                         /\ UNCHANGED num_access_points_
                         /\ Return("getNextAccessPoint", TRUE, 315, iss, ack,
                                   rec)
    /\ seq_calls' = IF seq_calls >= 0
                      THEN Min(seq_calls + 1, MaxNets + 2)
                      ELSE -1
    /\ UNCHANGED << buildVars, is_initialized_, connection_info_, flagVars,
                    g_ping_report, chip_nets, chip_ipconfig, chip_ping,
                    scan_returned_true, entry_flags >>

-----------------------------------------------------------------------------
(* connect *)

\* millis() - time after d more ticks
Later(e, d) == Min(e + d, ElapsedCap)

\* the blocked call stays blocked, its locals as they are but for elapsed
Stay(p, iss, ack, e) ==
    /\ Goto(p, iss, ack)
    /\ elapsed' = e
    /\ UNCHANGED << security, timeout, attempts >>

\* lines 334-358: the preconditions, the connection policy, time = millis()
connectCall(sec, t, policy_ok) ==
    /\ pc = "idle"
    /\ LET iss == Issue(NoCmds, "set_connection_policy")
           ack == Answer(NoAcks, "set_connection_policy", policy_ok)
       IN  IF NotInitialized
             THEN Return("connect", FALSE, 336, NoCmds, NoAcks, "none")
             ELSE IF getDHCPStatus
             THEN Return("connect", FALSE, 341, NoCmds, NoAcks, "none")
             ELSE IF ~SecurityOk(sec)
             THEN Return("connect", FALSE, 349, NoCmds, NoAcks, "none")
             ELSE IF ~policy_ok
             THEN Return("connect", FALSE, 354, iss, ack, "none")
             ELSE Enter("connect", "connect_loop", iss, ack)
    /\ security' = sec
    /\ timeout' = t
    /\ elapsed' = 0
    /\ attempts' = 0
    /\ UNCHANGED << buildVars, is_initialized_, scanVars, connection_info_,
                    flagVars, g_ping_report, chipVars, histVars >>

\* line 359: one test of the loop condition
connectLoop ==
    /\ pc = "connect_loop"
    /\ IF getConnectionStatus
         THEN Stay("dhcp_wait", issued, acked, elapsed)
         ELSE Stay("connect_try", issued, acked, elapsed)
    /\ UNCHANGED << buildVars, is_initialized_, scanVars, connection_info_,
                    flagVars, g_ping_report, chipVars, histVars >>

\* lines 361-394: one iteration: delay(10), wlan_connect taking d ticks, the
\* timeout test
connectAttempt(connect_ok, d) ==
    /\ pc = "connect_try"
    /\ LET iss == Issue(issued, "wlan_connect")
           ack == Answer(acked, "wlan_connect", connect_ok)
           e   == Later(elapsed, DelayTicks + d)
       IN  IF connect_ok
             THEN Stay("dhcp_wait", iss, ack, e)
             ELSE IF TimedOut(timeout, e)
             THEN Leave(FALSE, 392, iss, ack, "none", e)
             ELSE Stay("connect_loop", iss, ack, e)
    /\ UNCHANGED << buildVars, is_initialized_, scanVars, connection_info_,
                    flagVars, g_ping_report, chipVars, histVars >>

\* variant with a fault: the DHCP wait has no timeout test
dhcpWaitUnbounded(d) ==
    /\ pc = "dhcp_wait"
    /\ IF getDHCPStatus
         THEN Stay("ipconfig", issued, acked, elapsed)
         ELSE Stay("dhcp_wait", issued, acked, Later(elapsed, d))
    /\ UNCHANGED << buildVars, is_initialized_, scanVars, connection_info_,
                    flagVars, g_ping_report, chipVars, histVars >>

\* lines 402-411: one test of the DHCP flag and of the timeout; the time the
\* iteration takes (d ticks) passes before the next test
dhcpWait(d) ==
    /\ pc = "dhcp_wait"
    /\ IF getDHCPStatus
         THEN Stay("ipconfig", issued, acked, elapsed)
         ELSE IF TimedOut(timeout, elapsed)
         THEN Leave(FALSE, 408, issued, acked, "none", elapsed)
         ELSE Stay("dhcp_wait", issued, acked, Later(elapsed, d))
    /\ UNCHANGED << buildVars, is_initialized_, scanVars, connection_info_,
                    flagVars, g_ping_report, chipVars, histVars >>

\* lines 417-420: netapp_ipconfig(&connection_info_); return true
connectReturn ==
    /\ pc = "ipconfig"
    /\ connection_info_' = ConfigOf(chip_ipconfig)
    /\ Leave(TRUE, 420, Issue(issued, "netapp_ipconfig"), acked, "none",
             elapsed)
    /\ UNCHANGED << buildVars, is_initialized_, scanVars, flagVars,
                    g_ping_report, chipVars, histVars >>

-----------------------------------------------------------------------------
(* disconnect, dnsLookup, ping, getConnectionInfo *)

\* variant with a fault: the is_initialized_ test is missing
disconnectUnguarded(ok) ==
    /\ pc = "idle"
    /\ NoLocals
    /\ LET iss == Issue(NoCmds, "wlan_disconnect")
           ack == Answer(NoAcks, "wlan_disconnect", ok)
       IN  IF ok
             THEN Return("disconnect", TRUE, 437, iss, ack, "none")
             ELSE Return("disconnect", FALSE, 439, iss, ack, "none")
    /\ UNCHANGED << buildVars, is_initialized_, scanVars, connection_info_,
                    flagVars, g_ping_report, chipVars, histVars >>

\* variant with a fault: disconnect() fails when the connected flag is false
disconnectChecksFlag(ok) ==
    /\ pc = "idle"
    /\ NoLocals
    /\ IF NotInitialized
         THEN Return("disconnect", FALSE, 432, NoCmds, NoAcks, "none")
         ELSE IF ~getConnectionStatus
         THEN Return("disconnect", FALSE, 432, NoCmds, NoAcks, "none")
         ELSE LET iss == Issue(NoCmds, "wlan_disconnect")
                  ack == Answer(NoAcks, "wlan_disconnect", ok)
              IN  IF ok
                    THEN Return("disconnect", TRUE, 437, iss, ack, "none")
                    ELSE Return("disconnect", FALSE, 439, iss, ack, "none")
    /\ UNCHANGED << buildVars, is_initialized_, scanVars, connection_info_,
                    flagVars, g_ping_report, chipVars, histVars >>

\* variant with a fault: a successful disconnect() clears the two flags
disconnectClearsFlags(ok) ==
    /\ pc = "idle"
    /\ NoLocals
    /\ IF NotInitialized
         THEN /\ Return("disconnect", FALSE, 432, NoCmds, NoAcks, "none")
              /\ UNCHANGED << ulCC3000Connected, ulCC3000DHCP >>
         ELSE LET iss == Issue(NoCmds, "wlan_disconnect")
                  ack == Answer(NoAcks, "wlan_disconnect", ok)
              IN  IF ok
                    THEN /\ Return("disconnect", TRUE, 437, iss, ack, "none")
                         /\ ulCC3000Connected' = 0
                         /\ ulCC3000DHCP' = 0
                    ELSE /\ Return("disconnect", FALSE, 439, iss, ack, "none")
                         /\ UNCHANGED << ulCC3000Connected, ulCC3000DHCP >>
    /\ UNCHANGED << buildVars, is_initialized_, scanVars, connection_info_,
                    otherFlagVars, g_ping_report, chipVars, histVars >>

\* lines 428-441
disconnect(ok) ==
    /\ pc = "idle"
    /\ NoLocals
    /\ IF NotInitialized
         THEN Return("disconnect", FALSE, 432, NoCmds, NoAcks, "none")
         ELSE LET iss == Issue(NoCmds, "wlan_disconnect")
                  ack == Answer(NoAcks, "wlan_disconnect", ok)
              IN  IF ok
                    THEN Return("disconnect", TRUE, 437, iss, ack, "none")
                    ELSE Return("disconnect", FALSE, 439, iss, ack, "none")
    /\ UNCHANGED << buildVars, is_initialized_, scanVars, connection_info_,
                    flagVars, g_ping_report, chipVars, histVars >>

\* the flags as the call finds them
FlagsNow == << ulCC3000Connected, ulCC3000DHCP >>

\* lines 454-462: initialized, connected
dnsLookupCall ==
    /\ pc = "idle"
    /\ NoLocals
    /\ IF NotInitialized
         THEN Return("dnsLookup", FALSE, 456, NoCmds, NoAcks, "none")
         ELSE IF ~getConnectionStatus
         THEN Return("dnsLookup", FALSE, 461, NoCmds, NoAcks, "none")
         ELSE Enter("dnsLookup", "dns_dhcp", NoCmds, NoAcks)
    /\ entry_flags' = FlagsNow
    /\ UNCHANGED << buildVars, is_initialized_, scanVars, connection_info_,
                    flagVars, g_ping_report, chipVars, scan_returned_true,
                    seq_calls >>

\* variant with a fault: the DHCP flag is not tested
dnsLookupCheckSkipped ==
    /\ pc = "dns_dhcp"
    /\ Stay("dns_cmd", issued, acked, elapsed)
    /\ UNCHANGED << buildVars, is_initialized_, scanVars, connection_info_,
                    flagVars, g_ping_report, chipVars, histVars >>

\* lines 464-467: the DHCP flag
dnsLookupCheck ==
    /\ pc = "dns_dhcp"
    /\ IF ~getDHCPStatus
         THEN Leave(FALSE, 466, issued, acked, "none", elapsed)
         ELSE Stay("dns_cmd", issued, acked, elapsed)
    /\ UNCHANGED << buildVars, is_initialized_, scanVars, connection_info_,
                    flagVars, g_ping_report, chipVars, histVars >>

\* lines 474-485: gethostbyname returning r with address v
dnsLookupReturn(r, v) ==
    /\ pc = "dns_cmd"
    /\ LET iss == Issue(issued, "gethostbyname")
           ack == Answer(acked, "gethostbyname", r > 0)
       IN  IF r = 0
             THEN Leave(FALSE, 476, iss, ack, "none", elapsed)
             ELSE Leave(TRUE, 485, iss, ack, IPAddrOf(v), elapsed)
    /\ UNCHANGED << buildVars, is_initialized_, scanVars, connection_info_,
                    flagVars, g_ping_report, chipVars, histVars >>

\* lines 507-515: initialized, connected
pingCall(n) ==
    /\ pc = "idle"
    /\ IF NotInitialized
         THEN Return("ping", FALSE, 509, NoCmds, NoAcks, "none")
         ELSE IF ~getConnectionStatus
         THEN Return("ping", FALSE, 514, NoCmds, NoAcks, "none")
         ELSE Enter("ping", "ping_dhcp", NoCmds, NoAcks)
    /\ attempts' = n
    /\ security' = 0
    /\ timeout' = 0
    /\ elapsed' = 0
    /\ entry_flags' = FlagsNow
    /\ UNCHANGED << buildVars, is_initialized_, scanVars, connection_info_,
                    flagVars, g_ping_report, chipVars, scan_returned_true,
                    seq_calls >>

\* variant with a fault: the DHCP flag is not tested
pingCheckSkipped ==
    /\ pc = "ping_dhcp"
    /\ Stay("ping_cmd", issued, acked, elapsed)
    /\ UNCHANGED << buildVars, is_initialized_, scanVars, connection_info_,
                    flagVars, g_ping_report, chipVars, histVars >>

\* lines 517-520: the DHCP flag
pingCheck ==
    /\ pc = "ping_dhcp"
    /\ IF ~getDHCPStatus
         THEN Leave(FALSE, 519, issued, acked, "none", elapsed)
         ELSE Stay("ping_cmd", issued, acked, elapsed)
    /\ UNCHANGED << buildVars, is_initialized_, scanVars, connection_info_,
                    flagVars, g_ping_report, chipVars, histVars >>

\* lines 522-536: netapp_ping_send
pingSend(ok) ==
    /\ pc = "ping_cmd"
    /\ LET iss == Issue(issued, "netapp_ping_send")
           ack == Answer(acked, "netapp_ping_send", ok)
       IN  IF ~ok
             THEN /\ Leave(FALSE, 535, iss, ack, "none", elapsed)
                  /\ UNCHANGED chip_ping
             ELSE /\ Stay("ping_wait", iss, ack, elapsed)
                  /\ chip_ping' = attempts
    /\ UNCHANGED << buildVars, is_initialized_, scanVars, connection_info_,
                    flagVars, g_ping_report, chip_nets, chip_next,
                    chip_ipconfig, histVars >>

\* the fields of a PingReport the model keeps
PingFields == { "packets_sent", "packets_received" }

\* lines 537-543: the delay is over; memcpy(&ping_report, &g_ping_report) has
\* copied field f.  g_ping_report is neither volatile nor read with the
\* interrupt masked, and the order memcpy copies in is the build's choice:
\* either field may be the one copied before a report event writes the buffer
pingCopy(f) ==
    /\ pc = "ping_wait"
    /\ pc' = "ping_copy"
    /\ out' = (f :> g_ping_report[f])
    /\ UNCHANGED << op, result, ret_line, issued, acked >>
    /\ UNCHANGED << buildVars, is_initialized_, scanVars, connection_info_,
                    flagVars, g_ping_report, chipVars, localVars, histVars >>

\* lines 543-545: memcpy copies the rest of the buffer; return true
pingReturn ==
    /\ pc = "ping_copy"
    /\ Leave(TRUE, 545, issued, acked,
             [ f \in PingFields |->
                 IF f \in DOMAIN out THEN out[f] ELSE g_ping_report[f] ],
             elapsed)
    /\ UNCHANGED << buildVars, is_initialized_, scanVars, connection_info_,
                    flagVars, g_ping_report, chipVars, histVars >>

\* lines 587-595: initialized, connected
getConnectionInfoCall ==
    /\ pc = "idle"
    /\ NoLocals
    /\ IF NotInitialized
         THEN Return("getConnectionInfo", FALSE, 589, NoCmds, NoAcks, "none")
         ELSE IF ~getConnectionStatus
         THEN Return("getConnectionInfo", FALSE, 594, NoCmds, NoAcks, "none")
         ELSE Enter("getConnectionInfo", "info_dhcp", NoCmds, NoAcks)
    /\ entry_flags' = FlagsNow
    /\ UNCHANGED << buildVars, is_initialized_, scanVars, connection_info_,
                    flagVars, g_ping_report, chipVars, scan_returned_true,
                    seq_calls >>

\* info as filled from the stored snapshot c
ConnectionInfoOf(c) ==
    [ ip_address      |-> Reverse(c.aucIP),
      subnet_mask     |-> Reverse(c.aucSubnetMask),
      default_gateway |-> Reverse(c.aucDefaultGateway),
      dhcp_server     |-> Reverse(c.aucDHCPServer),
      dns_server      |-> Reverse(c.aucDNSServer),
      mac_address     |-> Reverse(c.uaMacAddr),
      ssid            |-> c.uaSSID ]

\* lines 597-642: the DHCP flag, the copy
getConnectionInfoReturn ==
    /\ pc = "info_dhcp"
    /\ IF ~getDHCPStatus
         THEN Leave(FALSE, 599, issued, acked, "none", elapsed)
         ELSE Leave(TRUE, 642, issued, acked,
                    ConnectionInfoOf(connection_info_), elapsed)
    /\ UNCHANGED << buildVars, is_initialized_, scanVars, connection_info_,
                    flagVars, g_ping_report, chipVars, histVars >>

-----------------------------------------------------------------------------
(* The specifications *)

\* a step of the Event Dispatcher on a connection event
ConnectionEvent ==
    \/ EvConnect
    \/ EvDisconnect
    \/ \E l \in 1..MaxLease : EvDhcp(l)

\* a step of the Event Dispatcher
EventStep ==
    \/ ConnectionEvent
    \/ EvSmartConfigDone
    \/ \E r \in 0..MaxAttempts : EvPingReport(r)

\* a step of connect()
ConnectStep ==
    \/ \E sec \in SecurityInputs, t \in 0..MaxTimeout, ok \in BOOLEAN :
          connectCall(sec, t, ok)
    \/ connectLoop
    \/ \E ok \in BOOLEAN, d \in 0..CmdMax : connectAttempt(ok, d)
    \/ \E d \in 0..SpinMax : dhcpWait(d)
    \/ connectReturn

\* a step of the scan session
ScanStep ==
    \/ \E ok \in BOOLEAN : scanAccessPoints(ok)
    \/ \E b, c \in BOOLEAN, n \in 0..MaxNets : scanFetch(b, c, n)
    \/ \E ok \in BOOLEAN : getNextAccessPoint(ok)

\* a step of dnsLookup()
DnsStep ==
    \/ dnsLookupCall
    \/ dnsLookupCheck
    \/ \E r \in DnsReturns, v \in DnsAddrs : dnsLookupReturn(r, v)

\* a step of ping()
PingStep ==
    \/ \E n \in 1..MaxAttempts : pingCall(n)
    \/ pingCheck
    \/ \E ok \in BOOLEAN : pingSend(ok)
    \/ \E f \in PingFields : pingCopy(f)
    \/ pingReturn

\* a step of getConnectionInfo()
InfoStep ==
    \/ getConnectionInfoCall
    \/ getConnectionInfoReturn

\* a step of the application thread inside or into a public operation other
\* than init
ApiStep ==
    \/ \E ok \in BOOLEAN : getFirmwareVersion(ok)
    \/ \E ok \in BOOLEAN : getMacAddress(ok)
    \/ ScanStep
    \/ ConnectStep
    \/ \E ok \in BOOLEAN : disconnect(ok)
    \/ DnsStep
    \/ PingStep
    \/ InfoStep

\* The driver with every operation and every event.
Next ==
    \/ init
    \/ initReturn
    \/ ApiStep
    \/ EventStep

Spec == Init /\ [][Next]_vars

\* The application connects and disconnects; the chip raises connection
\* events at any time.
ConnectNext ==
    \/ init
    \/ initReturn
    \/ ConnectStep
    \/ \E ok \in BOOLEAN : disconnect(ok)
    \/ ConnectionEvent

SpecConnect == Init /\ [][ConnectNext]_vars

\* The application connects to a chip that never signals a connection nor a
\* DHCP lease.  The thread always gets to run, and every iteration of a wait
\* loop takes time sooner or later.
QuietNext ==
    \/ init
    \/ initReturn
    \/ \E sec \in SecurityInputs, t \in 0..MaxTimeout, ok \in BOOLEAN :
          connectCall(sec, t, ok)
    \/ connectLoop
    \/ \E ok \in BOOLEAN, d \in 0..CmdMax : connectAttempt(ok, d)
    \/ \E d \in 0..SpinMax : dhcpWait(d)
    \/ EvDisconnect

SpecQuiet ==
    /\ Init
    /\ [][QuietNext]_vars
    /\ WF_vars(connectLoop)
    /\ WF_vars(\E ok \in BOOLEAN, d \in 0..CmdMax : connectAttempt(ok, d))
    /\ WF_vars(\E d \in 0..SpinMax : dhcpWait(d))

\* The application scans and reads the results; the chip raises connection
\* events at any time.
ScanNext ==
    \/ init
    \/ initReturn
    \/ ScanStep
    \/ ConnectionEvent

SpecScan == Init /\ [][ScanNext]_vars

\* The driver until init() has succeeded: every call but init() returns in
\* the step it is made in.  The chip raises connection events once init()
\* has registered the callback, which is before init() returns.
UninitNext ==
    \/ ~is_initialized_ /\ init
    \/ initReturn
    \/ ~is_initialized_ /\ \E ok \in BOOLEAN : getFirmwareVersion(ok)
    \/ ~is_initialized_ /\ \E ok \in BOOLEAN : getMacAddress(ok)
    \/ ~is_initialized_ /\ \E ok \in BOOLEAN : scanAccessPoints(ok)
    \/ ~is_initialized_ /\ \E ok \in BOOLEAN : getNextAccessPoint(ok)
    \/ ~is_initialized_ /\ \E sec \in SecurityInputs, t \in 0..MaxTimeout,
                              ok \in BOOLEAN : connectCall(sec, t, ok)
    \/ ~is_initialized_ /\ \E ok \in BOOLEAN : disconnect(ok)
    \/ ~is_initialized_ /\ dnsLookupCall
    \/ ~is_initialized_ /\ \E n \in 1..MaxAttempts : pingCall(n)
    \/ ~is_initialized_ /\ getConnectionInfoCall
    \/ ConnectionEvent

SpecUninit == Init /\ [][UninitNext]_vars

\* The application initializes the driver, reads the firmware version and
\* the MAC address and disconnects; the chip raises connection events at any
\* time.
FacadeNext ==
    \/ init
    \/ initReturn
    \/ \E ok \in BOOLEAN : getFirmwareVersion(ok)
    \/ \E ok \in BOOLEAN : getMacAddress(ok)
    \/ \E ok \in BOOLEAN : disconnect(ok)
    \/ ConnectionEvent

SpecFacade == Init /\ [][FacadeNext]_vars

\* The application resolves names, pings and reads the connection info on a
\* driver that never called connect(); the chip raises connection events and
\* delivers ping reports at any time.
QueryNext ==
    \/ init
    \/ initReturn
    \/ DnsStep
    \/ PingStep
    \/ InfoStep
    \/ ConnectionEvent
    \/ \E r \in 0..MaxAttempts : EvPingReport(r)

SpecQuery == Init /\ [][QueryNext]_vars

\* The application calls every operation, in the order of a sketch: init,
\* the firmware version, the MAC address, connect, the connection info, a
\* name lookup, a ping, disconnect, and then a scan and its results, each
\* whatever the one before returned.  The chip raises every event at any
\* time.
SketchNext ==
    \/ op \in {"constructor", "init"} /\ init
    \/ initReturn
    \/ op = "init" /\ \E ok \in BOOLEAN : getFirmwareVersion(ok)
    \/ op = "getFirmwareVersion" /\ \E ok \in BOOLEAN : getMacAddress(ok)
    \/ op = "getMacAddress"
          /\ \E sec \in SecurityInputs, t \in 0..MaxTimeout, ok \in BOOLEAN :
                connectCall(sec, t, ok)
    \/ connectLoop
    \/ \E ok \in BOOLEAN, d \in 0..CmdMax : connectAttempt(ok, d)
    \/ \E d \in 0..SpinMax : dhcpWait(d)
    \/ connectReturn
    \/ op = "connect" /\ getConnectionInfoCall
    \/ getConnectionInfoReturn
    \/ op = "getConnectionInfo" /\ dnsLookupCall
    \/ dnsLookupCheck
    \/ \E r \in DnsReturns, v \in DnsAddrs : dnsLookupReturn(r, v)
    \/ op = "dnsLookup" /\ \E n \in 1..MaxAttempts : pingCall(n)
    \/ pingCheck
    \/ \E ok \in BOOLEAN : pingSend(ok)
    \/ \E f \in PingFields : pingCopy(f)
    \/ pingReturn
    \/ op = "ping" /\ \E ok \in BOOLEAN : disconnect(ok)
    \/ op = "disconnect" /\ \E ok \in BOOLEAN : scanAccessPoints(ok)
    \/ \E b, c \in BOOLEAN, n \in 0..MaxNets : scanFetch(b, c, n)
    \/ op \in {"scanAccessPoints", "getNextAccessPoint"}
          /\ \E ok \in BOOLEAN : getNextAccessPoint(ok)
    \/ EventStep

SpecSketch == Init /\ [][SketchNext]_vars

\* The application connects and reads the connection info; the chip raises
\* connection events at any time.
InfoNext ==
    \/ init
    \/ initReturn
    \/ ConnectStep
    \/ InfoStep
    \/ ConnectionEvent

SpecInfo == Init /\ [][InfoNext]_vars

-----------------------------------------------------------------------------
(* Properties of connect() *)

\* the step by which a connect() call returns
ConnectReturns == ConnectStep /\ pc' = "idle"

\* the last call made was connect() and it has returned
ConnectReturned == pc = "idle" /\ op = "connect"

\* connect() is inside one of its two loops
InConnectLoops ==
    op = "connect" /\ pc \in {"connect_loop", "connect_try", "dhcp_wait"}

\* C1: connect() never returns success unless the connected flag and the
\* dhcpAssigned flag are both true at the moment it returns, whatever chip
\* events arrive while it runs.
C1_SuccessOnlyWhenConnected ==
    [][ (ConnectReturns /\ result')
          => (ulCC3000Connected' = 1 /\ ulCC3000DHCP' = 1) ]_vars

\* C2: with a timeout T > 0 and a chip that never signals connected or DHCP,
\* a connect() call that has entered its loop returns failure, and it returns
\* no later than T plus one loop iteration after the loop was entered,
\* whether the chip accepts or rejects the connect commands.
C2_TimeoutReturnsFailure ==
    /\ (InConnectLoops /\ timeout > 0)
          ~> (ConnectReturned /\ ~result /\ elapsed <= timeout + LoopSlack)
    /\ [][ (ConnectReturns /\ InConnectLoops /\ timeout > 0)
             => (~result' /\ elapsed' <= timeout' + LoopSlack) ]_vars

\* a connect() call with a timeout has returned failure after its time ran
\* out, having issued a connect command
C2_Witness ==
    /\ ConnectReturned
    /\ ~result
    /\ timeout > 0
    /\ elapsed > timeout
    /\ issued["wlan_connect"] >= 1

\* C3: a connect() call with timeout 0 that is past its preconditions and the
\* connection policy command never returns failure; it leaves its loops only
\* when it reads the dhcpAssigned flag as true, and then returns success.
C3_NoTimeoutNeverFails ==
    [][ (op = "connect" /\ pc # "idle" /\ timeout = 0 /\ ConnectStep)
          => IF pc' = "idle"
               THEN pc = "ipconfig" /\ result'
               ELSE (pc' = "ipconfig") => (ulCC3000DHCP = 1) ]_vars

\* a connect() call with timeout 0 has returned success after more than one
\* connect command
C3_Witness ==
    /\ ConnectReturned
    /\ result
    /\ timeout = 0
    /\ issued["wlan_connect"] >= 2

\* C4: connect() called while the dhcpAssigned flag is true, or with a
\* security mode that is none of open, WEP, WPA, WPA2, returns failure in the
\* call step and issues no chip command.
C4_PreconditionFailureTouchesNoChip ==
    [][ (pc = "idle" /\ ConnectStep
           /\ (ulCC3000DHCP = 1 \/ security' \notin SecurityModes))
          => (pc' = "idle" /\ ~result' /\ issued' = NoCmds) ]_vars

\* connect() was called on an initialized driver with a security mode that is
\* none of the four, and has returned failure
C4_Witness ==
    /\ ConnectReturned
    /\ is_initialized_
    /\ security \notin SecurityModes
    /\ ulCC3000DHCP = 0
    /\ ~result
    /\ issued = NoCmds

\* C5: whenever connect() returns failure the driver is not connected, both
\* flags false, so that a retry is not rejected as already connected.  Stated
\* for the calls the claim is about: those that fail after entering the
\* loops, by running out of time.
C5_FailedConnectLeavesNotConnected ==
    [][ (ConnectReturns /\ InConnectLoops /\ ~result')
          => (ulCC3000Connected' = 0 /\ ulCC3000DHCP' = 0) ]_vars

-----------------------------------------------------------------------------
(* Properties of the scan session *)

\* the last call made was getNextAccessPoint()
NextReturned == pc = "idle" /\ op = "getNextAccessPoint"

\* the last call made was scanAccessPoints() on an initialized driver
ScanReturned == pc = "idle" /\ op = "scanAccessPoints" /\ is_initialized_

\* C6: after scanAccessPoints() returned true with N networks, each of the
\* next N getNextAccessPoint() calls returns true, the (N+1)-th returns false
\* and the retrieved count is then N, whatever the chip answers to the
\* read-ahead fetches.
C6_ExactlyNRecords ==
    (NextReturned /\ seq_calls >= 1)
       => /\ (seq_calls <= num_access_points_) => result
          /\ (seq_calls = num_access_points_ + 1)
                => (~result /\ access_point_count_ = num_access_points_)

\* C7: the retrieved count never exceeds the total network count.
C7_CountWithinTotal == access_point_count_ <= num_access_points_

\* every record of a scan that found the most networks has been retrieved
C7_Witness ==
    /\ NextReturned
    /\ result
    /\ num_access_points_ = MaxNets
    /\ access_point_count_ = num_access_points_

\* C8: getNextAccessPoint() returns a record only if some earlier
\* scanAccessPoints() call has returned true.
C8_RecordOnlyAfterSuccessfulScan ==
    (NextReturned /\ result) => scan_returned_true

\* C9: on an initialized driver scanAccessPoints() returns true exactly when
\* the chip accepted the scan-start command, the first fetch and the
\* scan-stop command.
C9_ScanTrueIffAllAccepted ==
    ScanReturned
       => (result <=> /\ acked["scan_start"] = "ok"
                      /\ acked["get_scan_results"] = "ok"
                      /\ acked["scan_stop"] = "ok")

\* a scan has returned false because the chip rejected the scan-stop command
C9_Witness ==
    /\ ScanReturned
    /\ ~result
    /\ acked["scan_start"] = "ok"
    /\ acked["get_scan_results"] = "ok"
    /\ acked["scan_stop"] = "fail"

\* C18: when the chip rejects the read-ahead fetch of a getNextAccessPoint()
\* call, that call returns false and the later calls return false too, no
\* record and no repeated record, until a new scan succeeds.  Stated for
\* the call that comes next after the rejected one, in an iteration that a
\* successful scan started.
C18_RejectedFetchEndsIteration ==
    [][ ( /\ NextReturned
          /\ seq_calls >= 1
          /\ ret_line = 309
          /\ \E ok \in BOOLEAN : getNextAccessPoint(ok) )
          => ~result' ]_vars

\* C19: every scanAccessPoints() call whose scan-start command the chip
\* accepted has issued the scan-stop command when it returns, whatever the
\* answer to the fetch of the first result.
C19_AcceptedScanIsStopped ==
    (ScanReturned /\ acked["scan_start"] = "ok")
       => issued["scan_stop"] >= 1

-----------------------------------------------------------------------------
(* Properties of the driver before init() has succeeded *)

\* C10: while init() has not succeeded, every one of getFirmwareVersion,
\* getMacAddress, scanAccessPoints, getNextAccessPoint, connect, disconnect,
\* dnsLookup, ping and getConnectionInfo returns failure in the call step,
\* issues no chip command and leaves the scan session, the connection info
\* snapshot and the status flags unchanged.
C10_UninitializedCallsFail ==
    [][ (~is_initialized_ /\ ApiStep)
          => /\ pc' = "idle"
             /\ ~result'
             /\ issued' = NoCmds
             /\ UNCHANGED << scanVars, connection_info_, flagVars >> ]_vars

\* disconnect() was called before init() succeeded and has returned failure
C10_Witness ==
    /\ ~is_initialized_
    /\ pc = "idle"
    /\ op = "disconnect"
    /\ ~result
    /\ issued = NoCmds

-----------------------------------------------------------------------------
(* Properties of init() and disconnect() *)

\* the pin given to the constructor can raise an interrupt on this build
PinCanInterrupt == avr_build /\ g_int_pin \in {2, 3}

\* C11: once init() has returned true the driver stays initialized and every
\* later init() returns true without configuring the bus, registering the
\* callback or starting the chip again; an init() that fails the validation
\* of the interrupt pin returns false, does none of these and leaves the
\* driver uninitialized.
C11_InitIdempotent ==
    [][ /\ is_initialized_ => is_initialized_'
        /\ (init /\ is_initialized_)
              => (pc' = "idle" /\ result' /\ issued' = NoCmds)
        /\ initReturn => ~is_initialized_
        /\ (init /\ ~is_initialized_ /\ ~PinCanInterrupt)
              => (pc' = "idle" /\ ~result' /\ issued' = NoCmds
                  /\ ~is_initialized_') ]_vars

\* init() was called on an initialized driver and has returned true at once
C11_Witness ==
    /\ pc = "idle"
    /\ op = "init"
    /\ is_initialized_
    /\ result
    /\ ret_line = 98
    /\ issued = NoCmds

-----------------------------------------------------------------------------
(* Properties of dnsLookup(), ping() and getConnectionInfo() *)

QueryOps == {"dnsLookup", "ping", "getConnectionInfo"}

\* the last call made was one of the three queries and it has returned
QueryReturned == pc = "idle" /\ op \in QueryOps

\* the call has failed without a chip command and without output
FailedClean == ~result /\ issued = NoCmds /\ out = "none"

\* C12 as stated: dnsLookup(), ping() and getConnectionInfo() called while
\* the connected flag or the dhcpAssigned flag is false at entry return
\* failure, issue no chip command and write nothing to the output.
C12_FailsWhenFlagFalseAtEntry ==
    (QueryReturned /\ (entry_flags[1] # 1 \/ entry_flags[2] # 1))
       => FailedClean

\* C12 as it holds: each of the three returns failure, with no chip command
\* and nothing written, when the connected flag is false at entry or when the
\* dhcpAssigned flag is false at the moment the call tests it, which is after
\* the test of the connected flag.
C12_FailsWhenFlagFalseAtTest ==
    [][ /\ ( /\ \/ dnsLookupCall
                \/ \E n \in 1..MaxAttempts : pingCall(n)
                \/ getConnectionInfoCall
             /\ ulCC3000Connected # 1 )
              => (pc' = "idle" /\ FailedClean')
        /\ ( /\ dnsLookupCheck \/ pingCheck \/ getConnectionInfoReturn
             /\ ulCC3000DHCP # 1 )
              => (pc' = "idle" /\ FailedClean') ]_vars

\* ping() was called with the connected flag true and has failed at its test
\* of the dhcpAssigned flag
C12_Witness ==
    /\ QueryReturned
    /\ op = "ping"
    /\ entry_flags[1] = 1
    /\ ret_line = 519
    /\ FailedClean

\* C14: on an initialized driver disconnect() returns in the step it is
\* called in, having issued exactly one disconnect command and nothing else,
\* and returns true exactly when the chip acknowledged the command with
\* success, whatever the connected and the dhcpAssigned flag are.
C14_DisconnectMirrorsAck ==
    [][ \A ok \in BOOLEAN :
          (is_initialized_ /\ disconnect(ok))
             => /\ pc' = "idle"
                /\ result' = ok
                /\ issued' = [NoCmds EXCEPT !["wlan_disconnect"] = 1]
                /\ acked' = [NoAcks EXCEPT !["wlan_disconnect"] = Ack(ok)] ]_vars

\* disconnect() has returned true on a driver whose flags are both false
C14_Witness ==
    /\ pc = "idle"
    /\ op = "disconnect"
    /\ is_initialized_
    /\ result
    /\ acked["wlan_disconnect"] = "ok"
    /\ ulCC3000Connected = 0
    /\ ulCC3000DHCP = 0

\* getConnectionInfo() has returned success
InfoReturned == pc = "idle" /\ op = "getConnectionInfo" /\ result

\* b is a in the opposite byte order: b[i] = a[len - 1 - i], counted from 0
IsReversalOf(b, a) ==
    /\ Len(b) = Len(a)
    /\ \A i \in 1..Len(a) : b[i] = a[Len(a) + 1 - i]

\* 4-byte addresses the double reversal is tried on
AddrInputs == [1..4 -> {0, 7, 255}]

\* C16: a successful getConnectionInfo() returns the IP address, the subnet
\* mask, the default gateway, the DHCP server, the DNS server and the MAC
\* address each as the byte reversal of the stored snapshot field and the
\* SSID unchanged; reversing a 4-byte address twice yields the address.
C16_InfoIsByteReversal ==
    InfoReturned
       => /\ IsReversalOf(out.ip_address, connection_info_.aucIP)
          /\ IsReversalOf(out.subnet_mask, connection_info_.aucSubnetMask)
          /\ IsReversalOf(out.default_gateway,
                          connection_info_.aucDefaultGateway)
          /\ IsReversalOf(out.dhcp_server, connection_info_.aucDHCPServer)
          /\ IsReversalOf(out.dns_server, connection_info_.aucDNSServer)
          /\ IsReversalOf(out.mac_address, connection_info_.uaMacAddr)
          /\ out.ssid = connection_info_.uaSSID
          /\ Reverse(out.ip_address) = connection_info_.aucIP
          /\ Reverse(out.subnet_mask) = connection_info_.aucSubnetMask
          /\ \A a \in AddrInputs : Reverse(Reverse(a)) = a

\* getConnectionInfo() has returned the snapshot connect() stored for lease 1,
\* the address 192.168.1.11 in display order
C16_Witness ==
    /\ InfoReturned
    /\ connection_info_ = ConfigOf(1)
    /\ out.ip_address = << 192, 168, 1, 11 >>
    /\ out.subnet_mask = << 255, 255, 255, 0 >>

\* C21: whenever getConnectionInfo() returns success, what it returns is the
\* snapshot a successful connect() captured for the current connection: it
\* never succeeds with a snapshot that was never captured.
C21_InfoIsACapturedSnapshot ==
    InfoReturned => connection_info_ \notin UnsetConfigs

-----------------------------------------------------------------------------
(* Properties of ping() and dnsLookup() *)

\* C15: whenever ping() returns true the report it returns is the report of
\* that ping command: packets sent equals attempts and packets received is
\* at most attempts, whenever the ping report event arrives and whatever an
\* earlier ping left in the report buffer.
C15_ReportIsOfThisPing ==
    (pc = "idle" /\ op = "ping" /\ result)
       => /\ out.packets_sent = attempts
          /\ out.packets_received <= attempts

\* C17: for every 32-bit address v the chip's name resolution returns, a
\* successful dnsLookup() writes four bytes with address[0] the most and
\* address[3] the least significant byte of v:
\* address[0]*2^24 + address[1]*2^16 + address[2]*2^8 + address[3] = v,
\* stated on the two halves of v: address[0]*2^8 + address[1] = v >> 16 and
\* address[2]*2^8 + address[3] = v & 0xFFFF.
C17_DnsAddressBigEndian ==
    [][ \A r \in DnsReturns, v \in DnsAddrs :
          (dnsLookupReturn(r, v) /\ result')
             => /\ Len(out') = 4
                /\ \A i \in 1..4 : out'[i] \in 0..255
                /\ out'[1] * 256 + out'[2] = HighHalf(v)
                /\ out'[3] * 256 + out'[4] = LowHalf(v) ]_vars

\* dnsLookup() has returned 192.168.1.10, an address with the top bit set
C17_Witness ==
    /\ pc = "idle"
    /\ op = "dnsLookup"
    /\ result
    /\ out = << 192, 168, 1, 10 >>

\* the step in which dnsLookup() or ping() issues its chip command
IssuesQueryCommand ==
    \/ issued'["gethostbyname"] > issued["gethostbyname"]
    \/ issued'["netapp_ping_send"] > issued["netapp_ping_send"]

\* C20: at the moment dnsLookup() or ping() issues its chip command (name
\* resolution, ping send) the connected flag and the dhcpAssigned flag are
\* both true, however the events interleave with the two flag tests.
\* Stated for the calls that were entered with both flags true.
C20_CommandOnlyWhileConnected ==
    [][ (IssuesQueryCommand /\ entry_flags = << 1, 1 >>)
          => (ulCC3000Connected = 1 /\ ulCC3000DHCP = 1) ]_vars

\* C20 as it holds: dnsLookup() and ping() issue their chip command only
\* after reading the connected flag as true and then the dhcpAssigned flag
\* as true, each at its own test, and from no other position of the call; an
\* event that arrives between the two tests or after them does not
\* stop the command.
C20_CommandOnlyAfterBothTests ==
    [][ /\ IssuesQueryCommand => pc \in {"dns_cmd", "ping_cmd"}
        /\ (pc' \in {"dns_cmd", "ping_cmd"} /\ pc' # pc)
              => (pc \in {"dns_dhcp", "ping_dhcp"} /\ ulCC3000DHCP = 1)
        /\ (pc' \in {"dns_dhcp", "ping_dhcp"} /\ pc' # pc)
              => (pc = "idle" /\ is_initialized_ /\ ulCC3000Connected = 1) ]_vars

\* ping() has passed both tests and is about to issue its command; the
\* disconnect event has arrived since
C20_Witness ==
    /\ pc = "ping_cmd"
    /\ entry_flags = << 1, 1 >>
    /\ ulCC3000Connected = 0
    /\ ulCC3000DHCP = 0

-----------------------------------------------------------------------------
(* Properties of the status flags *)

\* a step of the application thread: a step of a public operation, or any
\* step that changes the record or the locals of the call
ThreadStep ==
    \/ init
    \/ initReturn
    \/ ApiStep
    \/ callVars' # callVars
    \/ localVars' # localVars

\* C13: the six status flags change only by a step of the Event Dispatcher:
\* no step of a public operation (init, scanAccessPoints, getNextAccessPoint,
\* connect, disconnect, dnsLookup, ping, the accessors), returning success or
\* failure or still blocked, changes any of them.
C13_OnlyEventsWriteFlags ==
    [][ ThreadStep => UNCHANGED flagVars ]_vars

\* disconnect() has returned success and both flags are still true, the
\* disconnect event not having arrived
C13_Witness ==
    /\ pc = "idle"
    /\ op = "disconnect"
    /\ result
    /\ ulCC3000Connected = 1
    /\ ulCC3000DHCP = 1

====
